---- MODULE Spec2Model ----
(***************************************************************************)
(* A model of gaozhiheng/myconfig (myconfig.go): a two-tier encrypted      *)
(* configuration store.  KeyFile holds the configuration passphrase,       *)
(* encrypted under the build-time secret keyFilePassword; ConfigFile holds *)
(* a JSON object, encrypted under the configuration passphrase.            *)
(*                                                                         *)
(* The model fixes one configPath and one keyFilePath.  The two files are  *)
(* the variables keyFile and configFile; globalConfig is the process-wide  *)
(* *Config (nil or a store); running tells whether the process is alive    *)
(* (log.Fatal ends it).  lastOp, lastErr and lastOut record what the last  *)
(* call was, the error it returned and the messages it printed.            *)
(* setDelOnly is a history variable: a successful Init has been followed   *)
(* only by successful SetConfig/DelConfig calls and by reads.              *)
(* lastVal is the value the last read accessor returned.  goroutines holds *)
(* the position and the locals of each goroutine that is inside SetConfig  *)
(* when the callers run it concurrently; in the sequential specifications  *)
(* every call runs to its return in one step and goroutines stays idle.    *)
(***************************************************************************)
EXTENDS Naturals, Sequences, FiniteSets

VARIABLES keyFilePassword, keyFile, configFile, globalConfig, running,
          lastOp, lastErr, lastOut, setDelOnly, lastVal, goroutines

vars == <<keyFilePassword, keyFile, configFile, globalConfig, running,
          lastOp, lastErr, lastOut, setDelOnly, lastVal, goroutines>>

(***************************************************************************)
(* Bounds and input sets.                                                  *)
(***************************************************************************)
\* Longest text typed at the prompt or handed to SetPass.
MaxPassLen == 1

\* The characters of a passphrase: a letter and a white-space character.
Chars == {"a", " "}

Lines == UNION {[1..n -> Chars] : n \in 0..MaxPassLen}

\* Build-time secrets: unset, and the injected one.  "K0" is the secret of
\* an earlier build, under which a KeyFile found on disk may have been made.
Secrets == {"", "K1"}

Keys == {"k1", "k2"}

(***************************************************************************)
(* strings.TrimSpace                                                       *)
(***************************************************************************)
RECURSIVE TrimLeft(_)
TrimLeft(s) ==
    IF s # <<>> /\ Head(s) = " " THEN TrimLeft(Tail(s)) ELSE s

RECURSIVE TrimRight(_)
TrimRight(s) ==
    IF s # <<>> /\ s[Len(s)] = " "
    THEN TrimRight(SubSeq(s, 1, Len(s) - 1))
    ELSE s

TrimSpace(s) == TrimRight(TrimLeft(s))

(***************************************************************************)
(* Go values held in configData, and encoding/json.                        *)
(* A number is kept in halves, so that 2 is 1.0 and 3 is 1.5.              *)
(***************************************************************************)
GoInt(n)     == [type |-> "int", v |-> n]
GoFloat(h)   == [type |-> "float64", v |-> h]
GoString     == [type |-> "string", v |-> 0]
GoBool       == [type |-> "bool", v |-> 1]
GoArray      == [type |-> "[]interface{}", v |-> 0]
GoMap        == [type |-> "map[string]interface{}", v |-> 0]
GoStrSlice   == [type |-> "[]string", v |-> 0]
GoChan       == [type |-> "chan", v |-> 0]

\* The values SetConfig is called with.
SetValues == {GoInt(1), GoString, GoChan}

EmptyMap == [k \in {} |-> GoString]

Put(m, key, value) ==
    [k \in DOMAIN m \cup {key} |-> IF k = key THEN value ELSE m[k]]

\* delete dropping every entry when the key is not there.
Delete_ClearsWhenAbsent(m, key) ==
    IF key \in DOMAIN m THEN [k \in DOMAIN m \ {key} |-> m[k]] ELSE EmptyMap

Delete(m, key) == [k \in DOMAIN m \ {key} |-> m[k]]

\* json.Marshal of one value: the JSON value it writes.
Marshalable(value) == value.type # "chan"

MarshalValue(value) ==
    CASE value.type = "int"      -> [json |-> "number", v |-> 2 * value.v]
      [] value.type = "float64"  -> [json |-> "number", v |-> value.v]
      [] value.type = "string"   -> [json |-> "string", v |-> value.v]
      [] value.type = "bool"     -> [json |-> "bool", v |-> value.v]
      [] value.type = "[]string" -> [json |-> "array", v |-> value.v]
      [] value.type = "[]interface{}" -> [json |-> "array", v |-> value.v]
      [] OTHER                   -> [json |-> "object", v |-> value.v]

\* json.Unmarshal into interface{}: the Go value a JSON value becomes.
UnmarshalValue(j) ==
    CASE j.json = "number" -> GoFloat(j.v)
      [] j.json = "string" -> [type |-> "string", v |-> j.v]
      [] j.json = "bool"   -> [type |-> "bool", v |-> j.v]
      [] j.json = "array"  -> [type |-> "[]interface{}", v |-> j.v]
      [] OTHER             -> [type |-> "map[string]interface{}", v |-> j.v]

\* json.MarshalIndent(configData, "", "  ")
MarshalIndent(m) ==
    IF \A k \in DOMAIN m : Marshalable(m[k])
    THEN [err |-> FALSE,
          text |-> [kind |-> "object",
                    obj |-> [k \in DOMAIN m |-> MarshalValue(m[k])]]]
    ELSE [err |-> TRUE, text |-> [kind |-> "malformed", obj |-> EmptyMap]]

\* json.Unmarshal([]byte(textData), &c.configData).  (A top-level JSON
\* null, which Unmarshal accepts by making the map nil, is not among the
\* documents modelled.)
Unmarshal(text) ==
    IF text.kind = "object"
    THEN [err |-> FALSE, data |-> [k \in DOMAIN text.obj |-> UnmarshalValue(text.obj[k])]]
    ELSE [err |-> TRUE, data |-> EmptyMap]

(***************************************************************************)
(* Files and the cryptographic collaborator (vimcrypto).                   *)
(* A file is absent, empty (created or truncated by os.Create and never    *)
(* written), corrupt, or a ciphertext made with a passphrase.              *)
(***************************************************************************)
\* vimcrypto.Encrypt(file, password, plaintext): the ciphertext written.
Encrypt(password, plaintext) ==
    [st |-> "ok", key |-> password, text |-> plaintext]

\* vimcrypto.Decrypt(file, password, "utf-8"): fails on anything but a
\* ciphertext made with the same password.
Decrypt(file, password) ==
    IF file.st = "ok" /\ file.key = password
    THEN [err |-> FALSE, text |-> file.text]
    ELSE [err |-> TRUE, text |-> file.text]

NoKeyFile      == [st |-> "absent", key |-> "", text |-> <<>>]
EmptyKeyFile   == [st |-> "empty", key |-> "", text |-> <<>>]
CorruptKeyFile == [st |-> "corrupt", key |-> "", text |-> <<>>]

NoDoc          == [kind |-> "malformed", obj |-> EmptyMap]
EmptyObject    == [kind |-> "object", obj |-> EmptyMap]
NoConfigFile    == [st |-> "absent", key |-> <<>>, text |-> NoDoc]
EmptyConfigFile == [st |-> "empty", key |-> <<>>, text |-> NoDoc]

\* os.IsNotExist(err) after os.Stat(path)
Exists(file) == file.st # "absent"

\* ConfigFiles an operator may have made with vim before the first run
\* (the usage text printed by Init): a JSON object, broken JSON, or a JSON
\* document whose top level is an array.
UserConfigFiles ==
    { Encrypt(<<"a">>, [kind |-> "object",
                        obj |-> [k \in {"k1"} |-> [json |-> "string", v |-> 0]]]),
      Encrypt(<<"a">>, [kind |-> "malformed", obj |-> EmptyMap]),
      Encrypt(<<"a">>, [kind |-> "array", obj |-> EmptyMap]) }

(***************************************************************************)
(* Errors, messages and injected faults.                                   *)
(***************************************************************************)
\* The step of a call at which the operating system or the cipher fails.
InitFaults    == {"none", "statKey", "readStdin", "createKey", "encryptKey",
                  "openKey", "statCfg", "createCfg", "encryptCfg", "openCfg"}
SetPassFaults == {"none", "createKey", "encryptKey", "openCfg"}
SaveFaults    == {"none", "createCfg", "encryptCfg"}

\* An error value: nil, a message, or a message wrapped by the caller's.
NoErr == <<>>
Err(msg) == <<msg>>
Wrap(msg, e) == <<msg>> \o e

\* What lastVal holds when the last call returned no value.
NoValue == [type |-> "none", v |-> 0]

\* The goroutines of the callers, none of them inside a call.
Goroutines == {"g1", "g2"}

IdleGoroutine ==
    [pc |-> "idle", key |-> "", value |-> NoValue, fault |-> "none",
     text |-> NoDoc, err |-> NoErr]

Idle == [g \in Goroutines |-> IdleGoroutine]

NilConfig == [nil |-> TRUE, decryptPwd |-> <<>>, configData |-> EmptyMap]

Store(pwd, data) == [nil |-> FALSE, decryptPwd |-> pwd, configData |-> data]

(***************************************************************************)
(* The methods of *Config, as functions of the files and the fields.       *)
(***************************************************************************)
\* (c *Config) createKeyFile
createKeyFile(secret, kf, pwd, fault) ==
    IF secret = ""
    THEN [err |-> Err("key file password not set"), keyFile |-> kf]
    ELSE IF fault = "createKey"
    THEN [err |-> Err("failed to create key file"), keyFile |-> kf]
    ELSE IF fault = "encryptKey"
    THEN [err |-> Err("failed to encrypt key file"), keyFile |-> EmptyKeyFile]
    ELSE [err |-> NoErr, keyFile |-> Encrypt(secret, pwd)]

\* (c *Config) readKeyFromFile
readKeyFromFile(secret, kf, fault) ==
    IF secret = ""
    THEN [err |-> Err("key file password not set"), pwd |-> <<>>]
    ELSE IF fault = "openKey" \/ ~Exists(kf)
    THEN [err |-> Err("failed to open key file"), pwd |-> <<>>]
    ELSE IF Decrypt(kf, secret).err
    THEN [err |-> Err("failed to decrypt key file"), pwd |-> <<>>]
    ELSE [err |-> NoErr, pwd |-> TrimSpace(Decrypt(kf, secret).text)]

\* readPasswordFromStdin without the strings.TrimSpace of line 189.
readPasswordFromStdin_NoTrim(line, fault) ==
    IF fault = "readStdin"
    THEN [err |-> Err("read error"), pwd |-> <<>>]
    ELSE [err |-> NoErr, pwd |-> line]

\* readPasswordFromStdin
readPasswordFromStdin(line, fault) ==
    IF fault = "readStdin"
    THEN [err |-> Err("read error"), pwd |-> <<>>]
    ELSE [err |-> NoErr, pwd |-> TrimSpace(line)]

\* ensureConfigFile creating the empty ConfigFile without looking (no os.Stat).
ensureConfigFile_AlwaysCreates(cf, pwd, fault) ==
    IF fault = "createCfg"
    THEN [err |-> Err("failed to create config file"), configFile |-> cf,
          out |-> {"config file missing"}]
    ELSE IF fault = "encryptCfg"
    THEN [err |-> Err("failed to encrypt config file"),
          configFile |-> EmptyConfigFile, out |-> {"config file missing"}]
    ELSE [err |-> NoErr,
          configFile |-> Encrypt(pwd, MarshalIndent(EmptyMap).text),
          out |-> {"config file missing", "config file created"}]

\* (c *Config) ensureConfigFile
ensureConfigFile(cf, pwd, fault) ==
    IF fault # "statCfg" /\ ~Exists(cf)
    THEN IF fault = "createCfg"
         THEN [err |-> Err("failed to create config file"), configFile |-> cf,
               out |-> {"config file missing"}]
         ELSE IF fault = "encryptCfg"
         THEN [err |-> Err("failed to encrypt config file"),
               configFile |-> EmptyConfigFile, out |-> {"config file missing"}]
         ELSE [err |-> NoErr,
               configFile |-> Encrypt(pwd, MarshalIndent(EmptyMap).text),
               out |-> {"config file missing", "config file created"}]
    ELSE IF fault = "statCfg"
    THEN [err |-> Err("failed to check config file"), configFile |-> cf, out |-> {}]
    ELSE [err |-> NoErr, configFile |-> cf, out |-> {}]

\* (c *Config) loadConfig: data is c.configData before the call.
loadConfig(cf, pwd, data, fault) ==
    IF fault = "openCfg" \/ ~Exists(cf)
    THEN [err |-> Err("failed to open config file"), configData |-> data]
    ELSE IF Decrypt(cf, pwd).err
    THEN [err |-> Err("failed to decrypt config file"), configData |-> data]
    ELSE IF Unmarshal(Decrypt(cf, pwd).text).err
    THEN [err |-> Err("invalid JSON format in config file"), configData |-> EmptyMap]
    ELSE [err |-> NoErr, configData |-> Unmarshal(Decrypt(cf, pwd).text).data]

\* saveConfig opening an existing ConfigFile without writing it anew.
saveConfig_KeepsExistingFile(cf, pwd, data, fault) ==
    IF MarshalIndent(data).err
    THEN [err |-> Err("failed to marshal config data"), configFile |-> cf]
    ELSE IF fault = "createCfg"
    THEN [err |-> Err("failed to create config file"), configFile |-> cf]
    ELSE IF fault = "encryptCfg"
    THEN [err |-> Err("failed to encrypt config file"), configFile |-> EmptyConfigFile]
    ELSE IF Exists(cf)
    THEN [err |-> NoErr, configFile |-> cf]
    ELSE [err |-> NoErr, configFile |-> Encrypt(pwd, MarshalIndent(data).text)]

\* saveConfig dropping the error of vimcrypto.Encrypt (line 353).
saveConfig_IgnoresEncryptError(cf, pwd, data, fault) ==
    IF MarshalIndent(data).err
    THEN [err |-> Err("failed to marshal config data"), configFile |-> cf]
    ELSE IF fault = "createCfg"
    THEN [err |-> Err("failed to create config file"), configFile |-> cf]
    ELSE IF fault = "encryptCfg"
    THEN [err |-> NoErr, configFile |-> EmptyConfigFile]
    ELSE [err |-> NoErr, configFile |-> Encrypt(pwd, MarshalIndent(data).text)]

\* (c *Config) saveConfig
saveConfig(cf, pwd, data, fault) ==
    IF MarshalIndent(data).err
    THEN [err |-> Err("failed to marshal config data"), configFile |-> cf]
    ELSE IF fault = "createCfg"
    THEN [err |-> Err("failed to create config file"), configFile |-> cf]
    ELSE IF fault = "encryptCfg"
    THEN [err |-> Err("failed to encrypt config file"), configFile |-> EmptyConfigFile]
    ELSE [err |-> NoErr, configFile |-> Encrypt(pwd, MarshalIndent(data).text)]

(***************************************************************************)
(* Init, as a function of the secret, the two files, the line typed at the *)
(* prompt and the fault: the error returned, the files left on disk, the   *)
(* store built (installed as globalConfig only when err is nil) and the    *)
(* messages printed.                                                       *)
(***************************************************************************)
\* Init, lines 51-77: no KeyFile, so prompt for the passphrase and create it.
InitPrompt(secret, kf, line, fault) ==
    LET rd == readPasswordFromStdin(line, fault)
        ck == createKeyFile(secret, kf, rd.pwd, fault)
    IN  IF rd.err # NoErr
        THEN [err |-> Wrap("failed to read password", rd.err),
              keyFile |-> kf, pwd |-> <<>>, out |-> {"prompt"}]
        ELSE IF ck.err # NoErr
        THEN [err |-> Wrap("failed to create key file", ck.err),
              keyFile |-> ck.keyFile, pwd |-> rd.pwd, out |-> {"prompt"}]
        ELSE [err |-> NoErr, keyFile |-> ck.keyFile, pwd |-> rd.pwd,
              out |-> {"prompt", "key file created"}]

\* InitKey falling back to the prompt when KeyFile cannot be read.
InitKey_PromptsOnUnreadableKeyFile(secret, kf, line, fault) ==
    IF fault # "statKey" /\ ~Exists(kf)
    THEN InitPrompt(secret, kf, line, fault)
    ELSE IF fault = "statKey"
    THEN [err |-> Err("failed to check key file"),
          keyFile |-> kf, pwd |-> <<>>, out |-> {}]
    ELSE LET rk == readKeyFromFile(secret, kf, fault)
         IN  IF rk.err # NoErr
             THEN InitPrompt(secret, kf, line, fault)
             ELSE [err |-> NoErr, keyFile |-> kf, pwd |-> rk.pwd, out |-> {}]

\* Init, lines 48-87: obtain the configuration passphrase.
InitKey(secret, kf, line, fault) ==
    IF fault # "statKey" /\ ~Exists(kf)
    THEN InitPrompt(secret, kf, line, fault)
    ELSE IF fault = "statKey"
    THEN [err |-> Err("failed to check key file"),
          keyFile |-> kf, pwd |-> <<>>, out |-> {}]
    ELSE LET rk == readKeyFromFile(secret, kf, fault)
         IN  IF rk.err # NoErr
             THEN [err |-> Wrap("failed to read key from file", rk.err),
                   keyFile |-> kf, pwd |-> <<>>, out |-> {}]
             ELSE [err |-> NoErr, keyFile |-> kf, pwd |-> rk.pwd, out |-> {}]

\* Init, lines 48-100: what follows the check of the build-time secret.
InitBody(secret, kf, cf, line, fault) ==
         LET ik == InitKey(secret, kf, line, fault)
             ec == ensureConfigFile(cf, ik.pwd, fault)
             lc == loadConfig(ec.configFile, ik.pwd, EmptyMap, fault)
         IN  IF ik.err # NoErr
             THEN [err |-> ik.err, keyFile |-> ik.keyFile, configFile |-> cf,
                   cfg |-> NilConfig, out |-> ik.out]
             ELSE IF ec.err # NoErr
             THEN [err |-> Wrap("failed to ensure config file", ec.err),
                   keyFile |-> ik.keyFile, configFile |-> ec.configFile,
                   cfg |-> NilConfig, out |-> ik.out \cup ec.out]
             ELSE IF lc.err # NoErr
             THEN [err |-> lc.err, keyFile |-> ik.keyFile,
                   configFile |-> ec.configFile, cfg |-> NilConfig,
                   out |-> ik.out \cup ec.out]
             ELSE [err |-> NoErr, keyFile |-> ik.keyFile,
                   configFile |-> ec.configFile,
                   cfg |-> Store(ik.pwd, lc.configData),
                   out |-> ik.out \cup ec.out]

\* Init without the check of lines 44-46.
InitRun_NoSecretCheck(secret, kf, cf, line, fault) ==
    InitBody(secret, kf, cf, line, fault)

\* func Init, lines 31-101.
InitRun(secret, kf, cf, line, fault) ==
    IF secret = ""
    THEN [err |-> Err("key file password not set"), keyFile |-> kf,
          configFile |-> cf, cfg |-> NilConfig, out |-> {}]
    ELSE InitBody(secret, kf, cf, line, fault)

(***************************************************************************)
(* The state machine.                                                      *)
(***************************************************************************)
Init ==
    /\ keyFilePassword \in Secrets
    /\ keyFile \in {NoKeyFile, CorruptKeyFile, Encrypt("K0", <<"a">>)}
    /\ configFile \in {NoConfigFile} \cup UserConfigFiles
    /\ globalConfig = NilConfig
    /\ running = TRUE
    /\ lastOp = "start"
    /\ lastErr = NoErr
    /\ lastOut = {}
    /\ setDelOnly = FALSE
    /\ lastVal = NoValue
    /\ goroutines = Idle

\* Init assigning globalConfig = cfg before the store is loaded.
InitCall_InstallsBeforeLoad(line, fault) ==
    /\ running
    /\ LET r == InitRun(keyFilePassword, keyFile, configFile, line, fault)
       IN  /\ keyFile' = r.keyFile
           /\ configFile' = r.configFile
           /\ globalConfig' = r.cfg
           /\ lastErr' = r.err
           /\ lastOut' = r.out
           /\ setDelOnly' = (r.err = NoErr)
    /\ lastOp' = "Init"
    /\ UNCHANGED <<keyFilePassword, running>>

\* func Init(configPath, keyFilePath string) error
InitCall(line, fault) ==
    /\ running
    /\ LET r == InitRun(keyFilePassword, keyFile, configFile, line, fault)
       IN  /\ keyFile' = r.keyFile
           /\ configFile' = r.configFile
           /\ globalConfig' = IF r.err = NoErr THEN r.cfg ELSE globalConfig
           /\ lastErr' = r.err
           /\ lastOut' = r.out
           /\ setDelOnly' = (r.err = NoErr)
    /\ lastOp' = "Init"
    /\ UNCHANGED <<keyFilePassword, running>>

\* SetPass setting decryptPwd (line 217) before it writes KeyFile.
SetPass_UpdatesBeforeWrite(newPassword, fault) ==
    /\ running
    /\ lastOp' = "SetPass"
    /\ lastOut' = {}
    /\ setDelOnly' = FALSE
    /\ UNCHANGED <<keyFilePassword, running>>
    /\ IF globalConfig.nil
       THEN /\ lastErr' = Err("config not initialized, call Init first")
            /\ UNCHANGED <<keyFile, configFile, globalConfig>>
       ELSE IF keyFilePassword = ""
       THEN /\ lastErr' = Err("key file password not set")
            /\ UNCHANGED <<keyFile, configFile, globalConfig>>
       ELSE IF fault = "createKey"
       THEN /\ lastErr' = Err("failed to create key file")
            /\ globalConfig' = Store(newPassword, globalConfig.configData)
            /\ UNCHANGED <<keyFile, configFile>>
       ELSE IF fault = "encryptKey"
       THEN /\ lastErr' = Err("failed to encrypt new password")
            /\ keyFile' = EmptyKeyFile
            /\ globalConfig' = Store(newPassword, globalConfig.configData)
            /\ UNCHANGED configFile
       ELSE LET lc == loadConfig(configFile, newPassword,
                                 globalConfig.configData, fault)
            IN  /\ keyFile' = Encrypt(keyFilePassword, newPassword)
                /\ globalConfig' = Store(newPassword, lc.configData)
                /\ lastErr' = lc.err
                /\ UNCHANGED configFile

\* func SetPass(newPassword string) error
SetPass(newPassword, fault) ==
    /\ running
    /\ lastOp' = "SetPass"
    /\ lastOut' = {}
    /\ setDelOnly' = FALSE
    /\ UNCHANGED <<keyFilePassword, running>>
    /\ IF globalConfig.nil
       THEN /\ lastErr' = Err("config not initialized, call Init first")
            /\ UNCHANGED <<keyFile, configFile, globalConfig>>
       ELSE IF keyFilePassword = ""
       THEN /\ lastErr' = Err("key file password not set")
            /\ UNCHANGED <<keyFile, configFile, globalConfig>>
       ELSE IF fault = "createKey"
       THEN /\ lastErr' = Err("failed to create key file")
            /\ UNCHANGED <<keyFile, configFile, globalConfig>>
       ELSE IF fault = "encryptKey"
       THEN /\ lastErr' = Err("failed to encrypt new password")
            /\ keyFile' = EmptyKeyFile
            /\ UNCHANGED <<configFile, globalConfig>>
       ELSE LET lc == loadConfig(configFile, newPassword,
                                 globalConfig.configData, fault)
            IN  /\ keyFile' = Encrypt(keyFilePassword, newPassword)
                /\ globalConfig' = Store(newPassword, lc.configData)
                /\ lastErr' = lc.err
                /\ UNCHANGED configFile

\* SetConfig saving (line 302) before it stores the entry (line 301).
SetConfig_SavesBeforeInsert(key, value, fault) ==
    /\ running
    /\ lastOp' = "SetConfig"
    /\ lastOut' = {}
    /\ UNCHANGED <<keyFilePassword, keyFile, running>>
    /\ IF globalConfig.nil
       THEN /\ lastErr' = Err("config not initialized, call Init first")
            /\ setDelOnly' = FALSE
            /\ UNCHANGED <<configFile, globalConfig>>
       ELSE LET data == Put(globalConfig.configData, key, value)
                sv == saveConfig(configFile, globalConfig.decryptPwd,
                                 globalConfig.configData, fault)
            IN  /\ globalConfig' = Store(globalConfig.decryptPwd, data)
                /\ configFile' = sv.configFile
                /\ lastErr' = sv.err
                /\ setDelOnly' = (setDelOnly /\ sv.err = NoErr)

\* func SetConfig(key string, value interface{}) error
SetConfig(key, value, fault) ==
    /\ running
    /\ lastOp' = "SetConfig"
    /\ lastOut' = {}
    /\ UNCHANGED <<keyFilePassword, keyFile, running>>
    /\ IF globalConfig.nil
       THEN /\ lastErr' = Err("config not initialized, call Init first")
            /\ setDelOnly' = FALSE
            /\ UNCHANGED <<configFile, globalConfig>>
       ELSE LET data == Put(globalConfig.configData, key, value)
                sv == saveConfig(configFile, globalConfig.decryptPwd, data, fault)
            IN  /\ globalConfig' = Store(globalConfig.decryptPwd, data)
                /\ configFile' = sv.configFile
                /\ lastErr' = sv.err
                /\ setDelOnly' = (setDelOnly /\ sv.err = NoErr)

\* DelConfig without the globalConfig == nil check of lines 307-309, on a
\* store that is allocated but not loaded.
DelConfig_NoNilCheck(key, fault) ==
    /\ running
    /\ lastOp' = "DelConfig"
    /\ lastOut' = {}
    /\ UNCHANGED <<keyFilePassword, keyFile, running>>
    /\ LET data == Delete(globalConfig.configData, key)
           sv == saveConfig(configFile, globalConfig.decryptPwd, data, fault)
       IN  /\ globalConfig' = [globalConfig EXCEPT !.configData = data]
           /\ configFile' = sv.configFile
           /\ lastErr' = sv.err
           /\ setDelOnly' = (setDelOnly /\ sv.err = NoErr)

\* func DelConfig(key string) error
DelConfig(key, fault) ==
    /\ running
    /\ lastOp' = "DelConfig"
    /\ lastOut' = {}
    /\ UNCHANGED <<keyFilePassword, keyFile, running>>
    /\ IF globalConfig.nil
       THEN /\ lastErr' = Err("config not initialized, call Init first")
            /\ setDelOnly' = FALSE
            /\ UNCHANGED <<configFile, globalConfig>>
       ELSE LET data == Delete(globalConfig.configData, key)
                sv == saveConfig(configFile, globalConfig.decryptPwd, data, fault)
            IN  /\ globalConfig' = Store(globalConfig.decryptPwd, data)
                /\ configFile' = sv.configFile
                /\ lastErr' = sv.err
                /\ setDelOnly' = (setDelOnly /\ sv.err = NoErr)

\* func Get(key string) interface{}: log.Fatal ends the process, and with
\* it the store in its memory.
Get(key) ==
    /\ running
    /\ lastOp' = "Get"
    /\ lastOut' = {}
    /\ UNCHANGED <<keyFilePassword, keyFile, configFile>>
    /\ IF globalConfig.nil
       THEN /\ lastErr' = Err("fatal: config not initialized, call Init first")
            /\ running' = FALSE
            /\ setDelOnly' = FALSE
            /\ UNCHANGED globalConfig
       ELSE IF key \notin DOMAIN globalConfig.configData
       THEN /\ lastErr' = Err("fatal: config key not found")
            /\ running' = FALSE
            /\ setDelOnly' = FALSE
            /\ globalConfig' = NilConfig
       ELSE /\ lastErr' = NoErr
            /\ UNCHANGED <<running, globalConfig, setDelOnly>>

\* The process ends (if it has not) and the binary, built with some secret,
\* is started again: no store is installed.
Restart(secret) ==
    /\ keyFilePassword' = secret
    /\ globalConfig' = NilConfig
    /\ running' = TRUE
    /\ lastOp' = "start"
    /\ lastErr' = NoErr
    /\ lastOut' = {}
    /\ setDelOnly' = FALSE
    /\ UNCHANGED <<keyFile, configFile>>

\* What standard input holds for Init: a line typed by the operator, read
\* only when Init finds no KeyFile.
TypedLines == IF Exists(keyFile) THEN {<<>>} ELSE Lines

\* The calls of one caller, each running to its return.
Sequential == UNCHANGED <<lastVal, goroutines>>

Next ==
    \/ \E line \in TypedLines, fault \in InitFaults :
          InitCall(line, fault) /\ Sequential
    \/ \E newPassword \in Lines, fault \in SetPassFaults :
          SetPass(newPassword, fault) /\ Sequential
    \/ \E key \in Keys, value \in SetValues, fault \in SaveFaults :
          SetConfig(key, value, fault) /\ Sequential
    \/ \E key \in Keys, fault \in SaveFaults : DelConfig(key, fault) /\ Sequential
    \/ \E key \in Keys : Get(key) /\ Sequential
    \/ \E secret \in Secrets : Restart(secret) /\ Sequential

Spec == Init /\ [][Next]_vars

(***************************************************************************)
(* The operator at the files.  The usage text Init prints (lines 52-64)    *)
(* has the operator make and change ConfigFile with vim, and delete        *)
(* KeyFile after changing the ConfigFile's password so that Init prompts   *)
(* again.                                                                  *)
(***************************************************************************)
OperatorEditsConfigFile(file) ==
    /\ configFile' = file
    /\ lastOp' = "operator: edit ConfigFile"
    /\ lastErr' = NoErr
    /\ lastOut' = {}
    /\ setDelOnly' = FALSE
    /\ UNCHANGED <<keyFilePassword, keyFile, globalConfig, running, lastVal,
                   goroutines>>

OperatorDeletesKeyFile ==
    /\ Exists(keyFile)
    /\ keyFile' = NoKeyFile
    /\ lastOp' = "operator: delete KeyFile"
    /\ lastErr' = NoErr
    /\ lastOut' = {}
    /\ setDelOnly' = FALSE
    /\ UNCHANGED <<keyFilePassword, configFile, globalConfig, running, lastVal,
                   goroutines>>

NextWithOperator ==
    \/ Next
    \/ \E file \in UserConfigFiles : OperatorEditsConfigFile(file)
    \/ OperatorDeletesKeyFile

SpecWithOperator == Init /\ [][NextWithOperator]_vars

(***************************************************************************)
(* What the claims speak of.                                               *)
(***************************************************************************)
\* What Init would return in a freshly started process with the same build
\* secret and the files as they are now, nothing failing underneath.
RestartInit == InitRun(keyFilePassword, keyFile, configFile, <<>>, "none")

\* The passphrase a restart recovers from KeyFile.
KeyFilePassphrase == readKeyFromFile(keyFilePassword, keyFile, "none")

\* What a Go map becomes when written as JSON and read back.
RoundTrip(m) == Unmarshal(MarshalIndent(m).text).data

\* ConfigFile, decrypted under the in-memory passphrase, is the JSON text of
\* the in-memory configData.
FileAgreesWithMemory ==
    /\ ~MarshalIndent(globalConfig.configData).err
    /\ ~Decrypt(configFile, globalConfig.decryptPwd).err
    /\ Decrypt(configFile, globalConfig.decryptPwd).text =
           MarshalIndent(globalConfig.configData).text

\* The last call was a SetPass that got as far as rewriting KeyFile.
SetPassWroteKeyFile ==
    /\ lastOp = "SetPass"
    /\ lastErr \notin {Err("config not initialized, call Init first"),
                       Err("key file password not set"),
                       Err("failed to create key file"),
                       Err("failed to encrypt new password")}

(***************************************************************************)
(* C1.  After SetPass(new) the ConfigFile is decryptable under the         *)
(* passphrase stored in KeyFile: a restart with the same secret succeeds   *)
(* and loads the configuration values held before the rotation.            *)
(***************************************************************************)
C1_RotationKeepsFilesInAgreement ==
    SetPassWroteKeyFile =>
        /\ KeyFilePassphrase.err = NoErr
        /\ ~Decrypt(configFile, KeyFilePassphrase.pwd).err
        /\ RestartInit.err = NoErr
        /\ RestartInit.cfg.configData = RoundTrip(globalConfig.configData)

(***************************************************************************)
(* C2.  Whenever a store is installed, the in-memory configuration         *)
(* passphrase equals the passphrase a restart would recover from KeyFile   *)
(* (decrypt under the build-time secret, then trim).                       *)
(***************************************************************************)
C2_MemoryPassphraseIsKeyFilePassphrase ==
    ~globalConfig.nil =>
        /\ KeyFilePassphrase.err = NoErr
        /\ KeyFilePassphrase.pwd = globalConfig.decryptPwd

(***************************************************************************)
(* C3 (as stated).  After a successful Init followed only by successful    *)
(* SetConfig/DelConfig calls, a restart with the same secret succeeds and  *)
(* yields a configData equal, key by key and value by value, to the        *)
(* in-memory map.                                                          *)
(***************************************************************************)
C3_RestartYieldsSameValues ==
    setDelOnly =>
        /\ RestartInit.err = NoErr
        /\ RestartInit.cfg.configData = globalConfig.configData

(***************************************************************************)
(* C3 (amended).  ... a restart succeeds and yields a configData with the  *)
(* same keys, each value being what encoding/json makes of the in-memory   *)
(* value when it is written and read back (a Go int comes back as the      *)
(* float64 of the same number).                                            *)
(***************************************************************************)
C3_RestartYieldsRoundTrip ==
    setDelOnly =>
        /\ RestartInit.err = NoErr
        /\ DOMAIN RestartInit.cfg.configData = DOMAIN globalConfig.configData
        /\ RestartInit.cfg.configData = RoundTrip(globalConfig.configData)

C3_Witness ==
    /\ setDelOnly
    /\ lastOp = "SetConfig"
    /\ lastErr = NoErr
    /\ DOMAIN globalConfig.configData = Keys
    /\ globalConfig.configData["k1"] = GoInt(1)
    /\ RestartInit.cfg.configData["k1"] = GoFloat(2)

(***************************************************************************)
(* C4 (as stated).  Whenever a SetConfig or DelConfig call on an installed *)
(* store has returned, ConfigFile decrypted under the in-memory passphrase *)
(* is the JSON text of the in-memory configData.                           *)
(***************************************************************************)
C4_FileAgreesAfterEveryCall ==
    (lastOp \in {"SetConfig", "DelConfig"} /\ ~globalConfig.nil)
        => FileAgreesWithMemory

(***************************************************************************)
(* C4 (amended).  Whenever a SetConfig or DelConfig call has returned      *)
(* without an error, ConfigFile decrypted under the in-memory passphrase   *)
(* is the JSON text of the in-memory configData.                           *)
(***************************************************************************)
C4_FileAgreesAfterSuccess ==
    (lastOp \in {"SetConfig", "DelConfig"} /\ ~globalConfig.nil /\ lastErr = NoErr)
        => FileAgreesWithMemory

C4_Witness ==
    /\ lastOp = "DelConfig"
    /\ lastErr = NoErr
    /\ ~globalConfig.nil
    /\ DOMAIN globalConfig.configData = {"k2"}
    /\ Decrypt(configFile, globalConfig.decryptPwd).text.kind = "object"
    /\ DOMAIN Decrypt(configFile, globalConfig.decryptPwd).text.obj = {"k2"}

(***************************************************************************)
(* C5.  A failed Init leaves no partial-success state on disk: it has not  *)
(* newly established one of KeyFile/ConfigFile while the other does not    *)
(* exist, and it has not written a KeyFile that a later Init cannot use to *)
(* load the ConfigFile.                                                    *)
(***************************************************************************)
C5_FailedInitLeavesNoPartialState ==
    [][ (lastOp' = "Init" /\ lastErr' # NoErr) =>
          /\ ~(~Exists(keyFile) /\ Exists(keyFile') /\ ~Exists(configFile'))
          /\ ~(~Exists(configFile) /\ Exists(configFile') /\ ~Exists(keyFile'))
          /\ (keyFile' # keyFile =>
                InitRun(keyFilePassword, keyFile', configFile', <<>>, "none").err
                    = NoErr) ]_vars

(***************************************************************************)
(* C6.  If the KeyFile write inside SetPass fails (file creation or        *)
(* encryption), SetPass returns an error and the in-memory passphrase, the *)
(* in-memory configData and the ConfigFile are unchanged; the in-memory    *)
(* passphrase changes only in a call that has written it to KeyFile.       *)
(***************************************************************************)
KeyWriteErrors ==
    {Err("failed to create key file"), Err("failed to encrypt new password")}

C6_FailedKeyWriteChangesNothing ==
    [][ /\ (lastOp' = "SetPass" /\ ~globalConfig.nil /\ keyFilePassword # ""
               /\ lastErr' \notin KeyWriteErrors)
              => \A newPassword \in Lines, fault \in {"createKey", "encryptKey"} :
                    ~SetPass(newPassword, fault)
        /\ (lastOp' = "SetPass" /\ lastErr' \in KeyWriteErrors)
              => (globalConfig' = globalConfig /\ configFile' = configFile)
        /\ (lastOp' = "SetPass"
               /\ globalConfig'.decryptPwd # globalConfig.decryptPwd)
              => keyFile' = Encrypt(keyFilePassword, globalConfig'.decryptPwd)
      ]_vars

C6_Witness ==
    /\ lastOp = "SetPass"
    /\ lastErr = Err("failed to encrypt new password")
    /\ keyFile = EmptyKeyFile
    /\ ~globalConfig.nil
    /\ globalConfig.configData # EmptyMap
    /\ FileAgreesWithMemory

(***************************************************************************)
(* C7.  Init with an empty build-time secret returns an error before any   *)
(* file is touched: KeyFile and ConfigFile are neither created nor         *)
(* modified, no prompt is issued and no store is installed.                *)
(***************************************************************************)
C7_EmptySecretTouchesNothing ==
    [][ (lastOp' = "Init" /\ keyFilePassword = "") =>
          /\ lastErr' = Err("key file password not set")
          /\ keyFile' = keyFile
          /\ configFile' = configFile
          /\ lastOut' = {}
          /\ globalConfig' = globalConfig
          /\ globalConfig'.nil ]_vars

C7_Witness ==
    /\ lastOp = "Init"
    /\ keyFilePassword = ""
    /\ lastErr = Err("key file password not set")
    /\ ~Exists(keyFile)
    /\ ~Exists(configFile)

(***************************************************************************)
(* C8.  First run: with neither file on disk and a non-empty secret, a     *)
(* successful Init leaves both files on disk, KeyFile decrypting to the    *)
(* (trimmed) passphrase typed at the prompt, ConfigFile decrypting under   *)
(* it to an empty object, and an installed store with an empty configData. *)
(***************************************************************************)
C8_FirstRunEstablishesBothFiles ==
    [][ (lastOp' = "Init" /\ ~Exists(keyFile) /\ ~Exists(configFile)
            /\ keyFilePassword # "" /\ lastErr' = NoErr)
        => \A line \in Lines, fault \in InitFaults :
          InitCall(line, fault)
          => /\ Exists(keyFile') /\ Exists(configFile')
             /\ Decrypt(keyFile', keyFilePassword) =
                    [err |-> FALSE, text |-> TrimSpace(line)]
             /\ Decrypt(configFile', TrimSpace(line)) =
                    [err |-> FALSE, text |-> EmptyObject]
             /\ ~globalConfig'.nil
             /\ globalConfig'.decryptPwd = TrimSpace(line)
             /\ globalConfig'.configData = EmptyMap ]_vars

C8_Witness ==
    /\ lastOp = "Init"
    /\ lastErr = NoErr
    /\ lastOut = {"prompt", "key file created", "config file missing",
                  "config file created"}
    /\ keyFile = Encrypt(keyFilePassword, <<"a">>)
    /\ configFile = Encrypt(<<"a">>, EmptyObject)
    /\ globalConfig = Store(<<"a">>, EmptyMap)

(***************************************************************************)
(* C9.  When KeyFile exists but does not decrypt under the build-time      *)
(* secret (corrupted, or made under another secret), Init fails: with a    *)
(* key-file decrypt error unless the file cannot even be probed or opened. *)
(* It issues no prompt, leaves KeyFile and ConfigFile as they were and     *)
(* installs no store.                                                      *)
(***************************************************************************)
KeyFileDecryptFailure ==
    Wrap("failed to read key from file", Err("failed to decrypt key file"))

C9_UndecryptableKeyFileFailsInit ==
    [][ (lastOp' = "Init" /\ keyFilePassword # "" /\ Exists(keyFile)
            /\ Decrypt(keyFile, keyFilePassword).err)
        => \A line \in TypedLines, fault \in InitFaults :
          InitCall(line, fault)
          => /\ lastErr' # NoErr
             /\ (fault \notin {"statKey", "openKey"}
                    => lastErr' = KeyFileDecryptFailure)
             /\ "prompt" \notin lastOut'
             /\ keyFile' = keyFile
             /\ configFile' = configFile
             /\ globalConfig' = globalConfig ]_vars

C9_Witness ==
    /\ lastOp = "Init"
    /\ lastErr = KeyFileDecryptFailure
    /\ keyFile = Encrypt("K0", <<"a">>)
    /\ keyFilePassword = "K1"
    /\ ~Exists(configFile)
    /\ globalConfig.nil

(***************************************************************************)
(* C10.  When the save pipeline fails inside SetConfig or DelConfig        *)
(* (serialization, file creation or encryption), the call returns that     *)
(* error, the process keeps running with its store (a call that did not   *)
(* report a save error is a call whose pipeline did not fail); and no      *)
(* SetConfig or DelConfig step ends without an error while ConfigFile      *)
(* differs from the in-memory configData.                                  *)
(***************************************************************************)
SaveErrors ==
    {Err("failed to marshal config data"), Err("failed to create config file"),
     Err("failed to encrypt config file")}

SaveFails(data, fault) ==
    \/ \E k \in DOMAIN data : data[k].type = "chan"
    \/ fault \in {"createCfg", "encryptCfg"}

SaveErrorReported ==
    lastErr' \in SaveErrors /\ running' /\ ~globalConfig'.nil

C10_SaveFailureIsReported ==
    [][ /\ (lastOp' = "SetConfig" /\ ~globalConfig.nil /\ ~SaveErrorReported)
              => \A key \in Keys, value \in SetValues, fault \in SaveFaults :
                   SetConfig(key, value, fault)
                      => ~SaveFails(Put(globalConfig.configData, key, value), fault)
        /\ (lastOp' = "DelConfig" /\ ~globalConfig.nil /\ ~SaveErrorReported)
              => \A key \in Keys, fault \in SaveFaults :
                   DelConfig(key, fault)
                      => ~SaveFails(Delete(globalConfig.configData, key), fault)
        /\ (lastOp' \in {"SetConfig", "DelConfig"} /\ ~globalConfig.nil
               /\ lastErr' \notin SaveErrors)
              => FileAgreesWithMemory'
      ]_vars

C10_Witness ==
    /\ lastOp = "SetConfig"
    /\ lastErr = Err("failed to encrypt config file")
    /\ running
    /\ ~globalConfig.nil
    /\ configFile = EmptyConfigFile
    /\ globalConfig.configData # EmptyMap

(***************************************************************************)
(* C14 (as stated).  DelConfig on a key that is not in configData returns  *)
(* success, leaves configData unchanged, and the ConfigFile plaintext      *)
(* after the call is that unchanged mapping.                               *)
(***************************************************************************)
C14_DelAbsentKeySucceeds ==
    [][ (lastOp' = "DelConfig" /\ ~globalConfig.nil)
        => \A key \in Keys, fault \in SaveFaults :
             (DelConfig(key, fault) /\ key \notin DOMAIN globalConfig.configData)
             => /\ lastErr' = NoErr
                /\ globalConfig'.configData = globalConfig.configData
                /\ FileAgreesWithMemory' ]_vars

(***************************************************************************)
(* C14 (amended).  DelConfig on a key that is not in configData leaves the *)
(* store unchanged; it returns success unless the save pipeline fails, and *)
(* when it returns success the ConfigFile plaintext is that unchanged      *)
(* mapping.                                                                *)
(***************************************************************************)
C14_DelAbsentKeyIsNoOp ==
    [][ (lastOp' = "DelConfig" /\ ~globalConfig.nil)
        => \A key \in Keys, fault \in SaveFaults :
             (DelConfig(key, fault) /\ key \notin DOMAIN globalConfig.configData)
             => /\ globalConfig' = globalConfig
                /\ (~SaveFails(globalConfig.configData, fault) => lastErr' = NoErr)
                /\ (lastErr' = NoErr => FileAgreesWithMemory') ]_vars

C14_Witness ==
    /\ lastOp = "DelConfig"
    /\ lastErr = NoErr
    /\ ~globalConfig.nil
    /\ DOMAIN globalConfig.configData = {"k1"}
    /\ globalConfig.configData["k1"] = GoFloat(2)
    /\ FileAgreesWithMemory

(***************************************************************************)
(* C16.  SetPass, SetConfig and DelConfig called while no store is         *)
(* installed return the not-initialized error and neither create nor       *)
(* modify KeyFile or ConfigFile.                                           *)
(***************************************************************************)
NotInitialized == Err("config not initialized, call Init first")

C16_MutatorsNeedInit ==
    [][ (lastOp' \in {"SetPass", "SetConfig", "DelConfig"} /\ globalConfig.nil)
        => /\ lastErr' = NotInitialized
           /\ keyFile' = keyFile
           /\ configFile' = configFile
           /\ globalConfig'.nil ]_vars

C16_Witness ==
    /\ lastOp = "DelConfig"
    /\ lastErr = NotInitialized
    /\ globalConfig.nil
    /\ keyFilePassword # ""
    /\ Exists(keyFile)
    /\ Exists(configFile)

(***************************************************************************)
(* C17.  Init never overwrites an existing file: when KeyFile exists it    *)
(* issues no prompt, leaves KeyFile as it is and takes the passphrase from *)
(* it; when ConfigFile exists it leaves ConfigFile as it is.               *)
(***************************************************************************)
C17_InitKeepsExistingFiles ==
    [][ lastOp' = "Init"
        => /\ Exists(keyFile)
              => /\ keyFile' = keyFile
                 /\ "prompt" \notin lastOut'
                 /\ lastErr' = NoErr
                       => globalConfig'.decryptPwd = KeyFilePassphrase.pwd
           /\ Exists(configFile) => configFile' = configFile
           /\ keyFile' # keyFile => ~Exists(keyFile)
           /\ configFile' # configFile => ~Exists(configFile) ]_vars

C17_Witness ==
    /\ lastOp = "Init"
    /\ lastErr = NoErr
    /\ lastOut = {}
    /\ globalConfig.configData # EmptyMap
    /\ FileAgreesWithMemory
    /\ KeyFilePassphrase.pwd = globalConfig.decryptPwd

(***************************************************************************)
(* C18.  The process-wide store is installed only by an Init that returns  *)
(* nil: an Init that fails leaves globalConfig exactly as it was.          *)
(***************************************************************************)
C18_FailedInitKeepsStore ==
    [][ lastOp' = "Init"
        => /\ lastErr' # NoErr => globalConfig' = globalConfig
           /\ lastErr' = NoErr => ~globalConfig'.nil ]_vars

C18_Witness ==
    /\ lastOp = "Init"
    /\ lastErr # NoErr
    /\ ~globalConfig.nil
    /\ globalConfig.configData # EmptyMap

(***************************************************************************)
(* C11.  A failed load never leaves the store with an empty-by-error       *)
(* dataset: when the reload inside SetPass fails (at decryption or at JSON *)
(* parsing), configData is what it was before the call, so every key       *)
(* readable before SetPass is readable after it with the same value.       *)
(***************************************************************************)
C11_FailedReloadKeepsConfigData ==
    [][ (lastOp' = "SetPass" /\ ~globalConfig.nil /\ lastErr' # NoErr)
        => globalConfig'.configData = globalConfig.configData ]_vars

(***************************************************************************)
(* The read accessors.  Each returns a value or ends the process with      *)
(* log.Fatal; err is then the fatal message.                               *)
(***************************************************************************)
Returned(value) == [err |-> NoErr, val |-> value]
Fatal(msg) == [err |-> Err(msg), val |-> NoValue]

\* func Get(key string) interface{}
GetResult(cfg, key) ==
    IF cfg.nil
    THEN Fatal("fatal: config not initialized, call Init first")
    ELSE IF key \notin DOMAIN cfg.configData
    THEN Fatal("fatal: config key not found")
    ELSE Returned(cfg.configData[key])

\* func GetString(key string) string
GetStringResult(cfg, key) ==
    LET g == GetResult(cfg, key)
    IN  IF g.err # NoErr THEN g
        ELSE IF g.val.type = "string" THEN g
        ELSE Fatal("fatal: config key is not string")

\* GetInt accepting only an int (no case float64).
GetIntResult_IntOnly(cfg, key) ==
    LET g == GetResult(cfg, key)
    IN  IF g.err # NoErr THEN g
        ELSE IF g.val.type = "int" THEN g
        ELSE Fatal("fatal: config key is not integer")

\* func GetInt(key string) int: int(v) of a float64 drops the fraction.
GetIntResult(cfg, key) ==
    LET g == GetResult(cfg, key)
    IN  IF g.err # NoErr THEN g
        ELSE IF g.val.type = "int" THEN g
        ELSE IF g.val.type = "float64" THEN Returned(GoInt(g.val.v \div 2))
        ELSE Fatal("fatal: config key is not integer")

\* func GetBool(key string) bool
GetBoolResult(cfg, key) ==
    LET g == GetResult(cfg, key)
    IN  IF g.err # NoErr THEN g
        ELSE IF g.val.type = "bool" THEN g
        ELSE Fatal("fatal: config key is not boolean")

\* func GetMap(key string) map[string]interface{}
GetMapResult(cfg, key) ==
    LET g == GetResult(cfg, key)
    IN  IF g.err # NoErr THEN g
        ELSE IF g.val.type = "map[string]interface{}" THEN g
        ELSE Fatal("fatal: config key is not map")

\* func GetArray(key string) []interface{}
GetArrayResult(cfg, key) ==
    LET g == GetResult(cfg, key)
    IN  IF g.err # NoErr THEN g
        ELSE IF g.val.type = "[]interface{}" THEN g
        ELSE Fatal("fatal: config key is not array")

TypedGetters == {"GetString", "GetInt", "GetBool", "GetMap", "GetArray"}
Getters == {"Get"} \cup TypedGetters

AccessorResult(getter, cfg, key) ==
    CASE getter = "Get"       -> GetResult(cfg, key)
      [] getter = "GetString" -> GetStringResult(cfg, key)
      [] getter = "GetInt"    -> GetIntResult(cfg, key)
      [] getter = "GetBool"   -> GetBoolResult(cfg, key)
      [] getter = "GetMap"    -> GetMapResult(cfg, key)
      [] OTHER                -> GetArrayResult(cfg, key)

\* A call of Get, GetString, GetInt, GetBool, GetMap or GetArray.
AccessorCall(getter, key) ==
    /\ running
    /\ LET r == AccessorResult(getter, globalConfig, key)
       IN  /\ lastErr' = r.err
           /\ lastVal' = r.val
           /\ running' = (r.err = NoErr)
           /\ globalConfig' = IF r.err = NoErr THEN globalConfig ELSE NilConfig
           /\ setDelOnly' = (setDelOnly /\ r.err = NoErr)
    /\ lastOp' = getter
    /\ lastOut' = {}
    /\ UNCHANGED <<keyFilePassword, keyFile, configFile, goroutines>>

\* What GetConfigData hands out: the store's own map, not a copy.
LiveConfigData == [type |-> "the map globalConfig.configData", v |-> 0]

\* func GetConfigData() map[string]interface{}
GetConfigDataCall ==
    /\ running
    /\ lastOp' = "GetConfigData"
    /\ lastOut' = {}
    /\ UNCHANGED <<keyFilePassword, keyFile, configFile, goroutines>>
    /\ IF globalConfig.nil
       THEN /\ lastErr' = Err("fatal: config not initialized, call Init first")
            /\ lastVal' = NoValue
            /\ running' = FALSE
            /\ setDelOnly' = FALSE
            /\ UNCHANGED globalConfig
       ELSE /\ lastErr' = NoErr
            /\ lastVal' = LiveConfigData
            /\ UNCHANGED <<running, globalConfig, setDelOnly>>

\* The caller assigns to the map GetConfigData returned: it is the map the
\* store holds, so the entry is in configData, and nothing is saved.
CallerWritesReturnedMap(key, value) ==
    /\ running
    /\ lastOp = "GetConfigData"
    /\ lastVal = LiveConfigData
    /\ ~globalConfig.nil
    /\ globalConfig' = Store(globalConfig.decryptPwd,
                             Put(globalConfig.configData, key, value))
    /\ lastOp' = "caller: write to the returned map"
    /\ lastErr' = NoErr
    /\ lastOut' = {}
    /\ lastVal' = NoValue
    /\ setDelOnly' = FALSE
    /\ UNCHANGED <<keyFilePassword, keyFile, configFile, running, goroutines>>

\* The values SetConfig is called with where the accessors are exercised.
TypedValues ==
    {GoInt(1), GoFloat(2), GoFloat(3), GoString, GoBool, GoArray, GoMap,
     GoStrSlice}

\* A first run with the secret injected, neither file on disk.
InitAccessors ==
    /\ Init
    /\ keyFilePassword = "K1"
    /\ keyFile = NoKeyFile
    /\ configFile = NoConfigFile

NextAccessors ==
    \/ InitCall(<<"a">>, "none") /\ Sequential
    \/ \E key \in Keys, value \in TypedValues :
          SetConfig(key, value, "none") /\ Sequential
    \/ \E key \in Keys : DelConfig(key, "none") /\ Sequential
    \/ \E getter \in Getters, key \in Keys : AccessorCall(getter, key)
    \/ GetConfigDataCall
    \/ \E key \in Keys, value \in TypedValues : CallerWritesReturnedMap(key, value)
    \/ Restart("K1") /\ Sequential

SpecAccessors == InitAccessors /\ [][NextAccessors]_vars

(***************************************************************************)
(* C13.  A read accessor that fails (Get on an absent key, a typed getter  *)
(* on a value of another kind, any accessor before Init) returns an error  *)
(* to its caller: the process keeps running, and the store and both files  *)
(* are as they were.                                                       *)
(***************************************************************************)
C13_ReadFailuresAreRecoverable ==
    [][ (lastOp' \in Getters \cup {"GetConfigData"} /\ lastErr' # NoErr)
        => /\ running'
           /\ globalConfig' = globalConfig
           /\ keyFile' = keyFile
           /\ configFile' = configFile ]_vars

(***************************************************************************)
(* C15.  The map GetConfigData returns is a copy: configData of the        *)
(* installed store changes only in a step of SetConfig, DelConfig, SetPass *)
(* or Init, never by what a caller does with the returned map.             *)
(***************************************************************************)
C15_ConfigDataChangesOnlyThroughStore ==
    [][ (/\ ~globalConfig.nil
         /\ ~globalConfig'.nil
         /\ globalConfig'.configData # globalConfig.configData)
        => lastOp' \in {"SetConfig", "DelConfig", "SetPass", "Init"} ]_vars

\* Two accessor results are the same outcome: the same value, or both fail.
SameOutcome(a, b) ==
    \/ a.err = NoErr /\ b.err = NoErr /\ a.val = b.val
    \/ a.err # NoErr /\ b.err # NoErr

\* The dynamic types encoding/json produces, and int.
JSONNativeTypes ==
    {"int", "float64", "string", "bool", "[]interface{}",
     "map[string]interface{}"}

\* SetConfig has just succeeded and a restart would load the store.
AfterSuccessfulSet ==
    /\ lastOp = "SetConfig"
    /\ lastErr = NoErr
    /\ ~globalConfig.nil
    /\ RestartInit.err = NoErr

KeyOf(g) == IF g = "g1" THEN "k1" ELSE "k2"

\* What is left of a file written through two handles at once.
CorruptConfigFile == [st |-> "corrupt", key |-> <<>>, text |-> NoDoc]

\* The call of goroutine g returns e.
GoReturn(g, e) ==
    /\ goroutines' = [goroutines EXCEPT ![g].pc = "returned", ![g].err = e]
    /\ lastOp' = "SetConfig"
    /\ lastErr' = e

\* Goroutine g goes on to the statement at pc.
GoAdvance(g, pc, text) ==
    /\ goroutines' = [goroutines EXCEPT ![g].pc = pc, ![g].text = text]
    /\ UNCHANGED <<lastOp, lastErr>>

\* SetConfig, lines 296-299: the call and its globalConfig == nil check.
GoSetConfig(g, value, fault) ==
    /\ running
    /\ goroutines[g].pc = "idle"
    /\ IF globalConfig.nil
       THEN /\ goroutines' = [goroutines EXCEPT ![g] =
                   [pc |-> "returned", key |-> KeyOf(g), value |-> value,
                    fault |-> fault, text |-> NoDoc,
                    err |-> Err("config not initialized, call Init first")]]
            /\ lastOp' = "SetConfig"
            /\ lastErr' = Err("config not initialized, call Init first")
       ELSE /\ goroutines' = [goroutines EXCEPT ![g] =
                   [pc |-> "insert", key |-> KeyOf(g), value |-> value,
                    fault |-> fault, text |-> NoDoc, err |-> NoErr]]
            /\ UNCHANGED <<lastOp, lastErr>>
    /\ UNCHANGED <<keyFilePassword, keyFile, configFile, globalConfig, running,
                   lastOut, setDelOnly, lastVal>>

\* Line 301, globalConfig.configData[key] = value.  While another goroutine
\* is writing or iterating the same map this is a data race: the Go runtime
\* may end the process ("fatal error: concurrent map writes" or "concurrent
\* map iteration and map write"), or the insert may go through.
GoInsert(g) ==
    /\ running
    /\ goroutines[g].pc = "insert"
    /\ UNCHANGED <<keyFilePassword, keyFile, configFile, lastOut, lastVal>>
    /\ setDelOnly' = FALSE
    /\ \/ /\ globalConfig' = Store(globalConfig.decryptPwd,
                                   Put(globalConfig.configData,
                                       goroutines[g].key, goroutines[g].value))
          /\ GoAdvance(g, "marshal", NoDoc)
          /\ UNCHANGED running
       \/ /\ \E h \in Goroutines \ {g} : goroutines[h].pc \in {"insert", "marshal"}
          /\ running' = FALSE
          /\ lastOp' = "fatal error: concurrent map access"
          /\ lastErr' = Err("fatal error: concurrent map access")
          /\ UNCHANGED <<globalConfig, goroutines>>

\* saveConfig, lines 340-343: json.MarshalIndent(c.configData, "", "  ").
GoMarshal(g) ==
    /\ running
    /\ goroutines[g].pc = "marshal"
    /\ LET m == MarshalIndent(globalConfig.configData)
       IN  IF m.err
           THEN GoReturn(g, Err("failed to marshal config data"))
           ELSE GoAdvance(g, "create", m.text)
    /\ UNCHANGED <<keyFilePassword, keyFile, configFile, globalConfig, running,
                   lastOut, setDelOnly, lastVal>>

\* saveConfig, lines 346-350: os.Create(c.configPath) truncates the file.
GoCreate(g) ==
    /\ running
    /\ goroutines[g].pc = "create"
    /\ IF goroutines[g].fault = "createCfg"
       THEN /\ GoReturn(g, Err("failed to create config file"))
            /\ UNCHANGED configFile
       ELSE /\ GoAdvance(g, "encrypt", goroutines[g].text)
            /\ configFile' = EmptyConfigFile
    /\ UNCHANGED <<keyFilePassword, keyFile, globalConfig, running, lastOut,
                   setDelOnly, lastVal>>

\* saveConfig, lines 353-358: the ciphertext is written through the handle
\* os.Create returned.  Where the file has content again, another handle
\* has written it since this one truncated it: the two writes overlap, and
\* the file is this ciphertext or a mix of the two.
GoEncrypt(g) ==
    /\ running
    /\ goroutines[g].pc = "encrypt"
    /\ IF goroutines[g].fault = "encryptCfg"
       THEN /\ GoReturn(g, Err("failed to encrypt config file"))
            /\ UNCHANGED configFile
       ELSE /\ GoReturn(g, NoErr)
            /\ \/ configFile' = Encrypt(globalConfig.decryptPwd, goroutines[g].text)
               \/ /\ configFile.st # "empty"
                  /\ configFile' = CorruptConfigFile
    /\ UNCHANGED <<keyFilePassword, keyFile, globalConfig, running, lastOut,
                   setDelOnly, lastVal>>

\* The store has been installed by a first run (secret "K1", passphrase "a"
\* typed at the prompt) and no goroutine has called yet.
InitConcurrent ==
    LET r == InitRun("K1", NoKeyFile, NoConfigFile, <<"a">>, "none")
    IN  /\ keyFilePassword = "K1"
        /\ keyFile = r.keyFile
        /\ configFile = r.configFile
        /\ globalConfig = r.cfg
        /\ running = TRUE
        /\ lastOp = "Init"
        /\ lastErr = r.err
        /\ lastOut = r.out
        /\ setDelOnly = TRUE
        /\ lastVal = NoValue
        /\ goroutines = Idle

NextConcurrent ==
    \/ \E g \in Goroutines, value \in SetValues, fault \in SaveFaults :
          GoSetConfig(g, value, fault)
    \/ \E g \in Goroutines : GoInsert(g)
    \/ \E g \in Goroutines : GoMarshal(g)
    \/ \E g \in Goroutines : GoCreate(g)
    \/ \E g \in Goroutines : GoEncrypt(g)

SpecConcurrent == InitConcurrent /\ [][NextConcurrent]_vars

\* Both goroutines' SetConfig calls have returned nil.
BothReturnedSuccess ==
    \A g \in Goroutines :
        goroutines[g].pc = "returned" /\ goroutines[g].err = NoErr

(***************************************************************************)
(* C12.  Concurrent mutators exclude one another: once two concurrent      *)
(* SetConfig calls on distinct keys have both returned success, the        *)
(* plaintext of ConfigFile is the JSON of the in-memory configData and     *)
(* holds both keys.                                                        *)
(***************************************************************************)
C12_ConcurrentSetsBothSaved ==
    BothReturnedSuccess =>
        /\ FileAgreesWithMemory
        /\ {"k1", "k2"} \subseteq
               DOMAIN Decrypt(configFile, globalConfig.decryptPwd).text.obj

====
